---- MODULE Spec2Model ----
(***************************************************************************)
(* Model of the salary dashboard (src/src/App.js) and of its bar chart     *)
(* (src/src/components/bar/index.js).                                      *)
(*                                                                         *)
(* Numbers.  JavaScript numbers are modelled in exact fixed point: every   *)
(* amount of money is an integer number of quarter pesos, so that one      *)
(* million pesos (the unit of 'income-cop') is Million units and one       *)
(* thousandth of a million (the step Math.round(x * 1000) / 1000 rounds    *)
(* to) is Mille units.  The rows of the roster have incomes that are       *)
(* multiples of 10, which makes every product with (1 + factor) and every  *)
(* half of a sum of two values exact.  The prestacional factor is held in  *)
(* twentieths (the slider's step is 0.05), the exchange rate in pesos.     *)
(* NaN, Infinity and undefined are distinct values outside the amounts.    *)
(***************************************************************************)
EXTENDS Integers, Sequences, FiniteSets, TLC

VARIABLES salaryFile, loading, fetch, salaryData, filters, contractTypeFilters,
          filteredData, salaryMean, salaryMedian, numberOfPeople, pending,
          mounted, selectedRange,
          pMean, pMedian, inGroup, calls

\* the state of the three RangeSlider components
sliderVars == <<mounted, selectedRange>>

\* the state of one crossfilter group under each of the two reducers of Bar
groupVars == <<pMean, pMedian, inGroup, calls>>

vars == <<salaryFile, loading, fetch, salaryData, filters, contractTypeFilters,
          filteredData, salaryMean, salaryMedian, numberOfPeople, pending,
          mounted, selectedRange, pMean, pMedian, inGroup, calls>>

(* ------------------------------ numbers ------------------------------- *)

NaN == -1
Infinity == -2
Undefined == -3

PesoUnits == 4
Million == 4000000
Mille == 4000
Twentieths == 20

IsFinite(a) == a >= 0

\* a * b for a JavaScript number a and a finite positive b
JsMul(a, b) ==
  IF a = NaN \/ a = Undefined THEN NaN
  ELSE IF a = Infinity THEN Infinity
  ELSE a * b

\* a <= b
JsLe(a, b) ==
  /\ a # NaN /\ a # Undefined
  /\ b # NaN /\ b # Undefined
  /\ \/ b = Infinity
     \/ a # Infinity /\ a <= b

\* a >= b
JsGe(a, b) == JsLe(b, a)

\* a * num / den, exact whenever den divides a * num
JsScale(a, num, den) ==
  IF a = NaN \/ a = Undefined THEN NaN
  ELSE IF a = Infinity THEN Infinity
  ELSE (a \div den) * num + ((a % den) * num) \div den

\* Math.round(a * 1000) / 1000 for an amount a
Round3(a) ==
  IF ~IsFinite(a) THEN (IF a = Infinity THEN Infinity ELSE NaN)
  ELSE ((a + Mille \div 2) \div Mille) * Mille

RECURSIVE Sum(_)
Sum(s) == IF s = <<>> THEN 0 ELSE Head(s) + Sum(Tail(s))

\* the sequence s with v inserted before the first element greater than v
RECURSIVE Insert(_, _)
Insert(s, v) ==
  IF s = <<>> THEN <<v>>
  ELSE IF v < Head(s) THEN <<v>> \o s
  ELSE <<Head(s)>> \o Insert(Tail(s), v)

\* values.sort(d3.ascending)
RECURSIVE SortAscending(_)
SortAscending(s) ==
  IF s = <<>> THEN <<>> ELSE Insert(SortAscending(Tail(s)), Head(s))

(* ------------------------------- data --------------------------------- *)

maxSalary == 1000000000

Laboral == "Laboral"
Prestacion == "Prestacion de servicios/Contractor/Independiente"
Contractor == "Contractor"

OtroLenguaje == "Otro lenguaje de programacion"

\* The cells of the file.  A cell of digits is kept as the number it spells;
\* Blank is an empty cell and Letters a cell of text that spells no number.
Blank == -5
Letters == -6

\* the unary plus of the accessor: +'' is 0, +'abc' is NaN
toNumber(cell) ==
  IF cell = Blank THEN 0 ELSE IF cell = Letters THEN NaN ELSE cell

\* a row of the file as d3.csv hands it to the accessor
csvRow(cur, lang, company, mode, contract, minExp, maxExp, eng, title, income) ==
  [currency |-> cur, main_programming_language |-> lang,
   company_type |-> company, workmode |-> mode, contract_type |-> contract,
   min_experience |-> minExp, max_experience |-> maxExp,
   english_level |-> eng, max_title |-> title,
   income_in_currency |-> income]

\* a row as the accessor of d3.csv returns it; 'income-cop' is not set yet
Row(cur, lang, company, mode, contract, minExp, maxExp, eng, title, income) ==
  [currency |-> cur, main_programming_language |-> lang,
   company_type |-> company, workmode |-> mode, contract_type |-> contract,
   min_experience |-> minExp, max_experience |-> maxExp,
   english_level |-> eng, max_title |-> title,
   income_in_currency |-> income, income_cop |-> Undefined]

\* the accessor of d3.csv; none of the company types of the roster holds the
\* text 'empresa' that the accessor strips
accessor(d) ==
  Row(d.currency, d.main_programming_language, d.company_type, d.workmode,
      d.contract_type, toNumber(d.min_experience), toNumber(d.max_experience),
      toNumber(d.english_level), toNumber(d.max_title),
      toNumber(d.income_in_currency))

\* the rows a file is made of
Roster == <<
  csvRow("Pesos", "JavaScript", "Startup", "Remoto", Laboral, 3, 5, 2, 5, 50000000),
  csvRow("Dollars", "Python", "Extranjera", "Remoto", Prestacion, 5, 10, 4, 6, 2000),
  csvRow("Dollars", "Python", "Extranjera", "Hibrido", Contractor, 5, 10, 4, 6, 2000),
  csvRow("Pesos", OtroLenguaje, "Startup", "Presencial", Laboral, 16, 20, 2, 5, 200),
  csvRow("Pesos", "JavaScript", "Startup", "Remoto", Laboral, 3, 5, 2, 5, Letters),
  csvRow("Pesos", "JavaScript", "Corporativo", "Remoto", Prestacion, 0, 1, 0, 1, 8001600)
>>

MaxRecords == 3

\* the strictly increasing index sequences of length n over lo..Len(Roster)
RECURSIVE Choices(_, _)
Choices(lo, n) ==
  IF n = 0 THEN {<<>>}
  ELSE UNION {{<<i>> \o c : c \in Choices(i + 1, n - 1)} : i \in lo..Len(Roster)}

\* the files: up to MaxRecords rows of the roster, in the roster's order
Files ==
  {[k \in 1..Len(c) |-> Roster[c[k]]] :
     c \in UNION {Choices(1, n) : n \in 0..MaxRecords}}

ExchangeRates == {4000, 4300}
Factors == {7, 9}
ExperienceStops == {0, 5, 15}
EnglishRanges == {[min |-> 0, max |-> 4], [min |-> 4, max |-> 4]}
TitleRanges == {[min |-> 1, max |-> 6], [min |-> 6, max |-> 6]}
ToggleLabels == {Laboral, Contractor}

Range(lo, hi) == [min |-> lo, max |-> hi]

(* ------------------------------ the App ------------------------------- *)

Null == [isNull |-> TRUE, rows |-> <<>>]
Array(s) == [isNull |-> FALSE, rows |-> s]

\* the [defaultMin, defaultMax] the App gives to each RangeSlider
RangeSliders == {"experience", "english_level", "max_title"}
defaultRange ==
  [experience |-> Range(0, 15),
   english_level |-> Range(0, 4),
   max_title |-> Range(1, 6)]

\* reduceInitial of the two reducers of Bar
meanInitial == [count |-> 0, sum |-> 0, avg |-> [sum |-> 0, count |-> 1]]
medianInitial == [values |-> <<>>, median |-> 0]

\* the App before its first render: the useState initial values
AppInit ==
  /\ loading = TRUE
  /\ fetch = "pending"
  /\ salaryMean = 0
  /\ salaryMedian = 0
  /\ numberOfPeople = 0
  /\ salaryData = Null
  /\ filteredData = Null
  /\ filters = [exchangeRate |-> 4300,
                experience |-> Range(0, 15),
                english_level |-> Range(0, 4),
                max_title |-> Range(0, 7),
                factor_prestacional |-> 7]
  /\ contractTypeFilters = [t \in {Laboral, Prestacion} |-> TRUE]
  /\ pending = FALSE
  /\ mounted = FALSE
  /\ selectedRange = defaultRange

\* a group before any record is added to it
GroupInit ==
  /\ pMean = meanInitial
  /\ pMedian = medianInitial
  /\ inGroup = <<>>
  /\ calls = 0

Init ==
  /\ salaryFile \in Files
  /\ AppInit
  /\ GroupInit

\* d3.csv(...).then: setSalaryData(csv); setLoading(false)
processDataThen ==
  /\ fetch = "pending"
  /\ LET csv == [k \in DOMAIN salaryFile |-> accessor(salaryFile[k])]
     IN  salaryData' = Array(csv)
  /\ loading' = FALSE
  /\ fetch' = "resolved"
  /\ pending' = TRUE
  /\ UNCHANGED <<salaryFile, filters, contractTypeFilters, filteredData,
                 salaryMean, salaryMedian, numberOfPeople>>
  /\ UNCHANGED sliderVars /\ UNCHANGED groupVars

\* d3.csv(...).catch: the handler is empty
processDataCatch ==
  /\ fetch = "pending"
  /\ fetch' = "rejected"
  /\ UNCHANGED <<salaryFile, loading, salaryData, filters, contractTypeFilters,
                 filteredData, salaryMean, salaryMedian, numberOfPeople, pending>>
  /\ UNCHANGED sliderVars /\ UNCHANGED groupVars

\* the controls are rendered once loading is false and have run their mount
\* effects; React runs the effect of one update before it renders the next one
CanInteract == ~loading /\ ~pending /\ mounted

\* setFilters that spreads the filters of the first render, as a handler
\* closing over filters in place of prevState would
setFiltersStale(name, value) ==
  [[exchangeRate |-> 4300,
    experience |-> Range(0, 15),
    english_level |-> Range(0, 4),
    max_title |-> Range(0, 7),
    factor_prestacional |-> 7] EXCEPT ![name] = value]

\* setFilters((prevState) => ({...prevState, [name]: value}))
setFilters(name, value) == [filters EXCEPT ![name] = value]

updateChart(name, value) ==
  /\ CanInteract
  /\ filters' = setFilters(name, value)
  /\ pending' = TRUE
  /\ UNCHANGED <<salaryFile, loading, fetch, salaryData, contractTypeFilters,
                 filteredData, salaryMean, salaryMedian, numberOfPeople>>
  /\ UNCHANGED sliderVars /\ UNCHANGED groupVars

\* the state of the RangeSlider that calls it is left to the caller
updateRangeChart(name, min, max) ==
  /\ CanInteract
  /\ filters' = setFilters(name, Range(min, max))
  /\ pending' = TRUE
  /\ UNCHANGED <<salaryFile, loading, fetch, salaryData, contractTypeFilters,
                 filteredData, salaryMean, salaryMedian, numberOfPeople>>
  /\ UNCHANGED groupVars

\* prevState[contractType] of a label the object does not hold is undefined,
\* and !undefined is true
setContractTypeFilters(contractType) ==
  IF contractType \in DOMAIN contractTypeFilters
  THEN [contractTypeFilters EXCEPT ![contractType] = ~@]
  ELSE (contractType :> TRUE) @@ contractTypeFilters

\* toggleContractType with an effect that does not depend on contractTypeFilters
toggleContractTypeNoEffect(contractType) ==
  /\ CanInteract
  /\ contractTypeFilters' = setContractTypeFilters(contractType)
  /\ UNCHANGED <<salaryFile, loading, fetch, salaryData, filters, filteredData,
                 salaryMean, salaryMedian, numberOfPeople, pending>>
  /\ UNCHANGED sliderVars /\ UNCHANGED groupVars

toggleContractType(contractType) ==
  /\ CanInteract
  /\ contractTypeFilters' = setContractTypeFilters(contractType)
  /\ pending' = TRUE
  /\ UNCHANGED <<salaryFile, loading, fetch, salaryData, filters, filteredData,
                 salaryMean, salaryMedian, numberOfPeople>>
  /\ UNCHANGED sliderVars /\ UNCHANGED groupVars

(* --------------------------- the RangeSlider -------------------------- *)

\* draw without the call of updateRangeChart
drawNoUpdate(variable, min, max) ==
  /\ CanInteract
  /\ selectedRange' = [selectedRange EXCEPT ![variable] = Range(min, max)]
  /\ UNCHANGED <<salaryFile, loading, fetch, salaryData, filters,
                 contractTypeFilters, filteredData, salaryMean, salaryMedian,
                 numberOfPeople, pending, mounted>>
  /\ UNCHANGED groupVars

\* draw(selected) of the slider of a variable, called by the d3 slider's
\* onchange: setSelectedRange(selected); updateRangeChart(variable, ...)
draw(variable, min, max) ==
  /\ selectedRange' = [selectedRange EXCEPT ![variable] = Range(min, max)]
  /\ updateRangeChart(variable, min, max)
  /\ UNCHANGED mounted

\* the mount effects of the three RangeSliders, run in the commit that first
\* renders them: each calls draw([defaultMin, defaultMax]), and the three
\* setFilters updaters are applied one after the other in one render
mount ==
  /\ ~loading /\ ~pending /\ ~mounted
  /\ mounted' = TRUE
  /\ selectedRange' = [v \in RangeSliders |-> defaultRange[v]]
  /\ filters' = [filters EXCEPT !.experience = defaultRange.experience,
                                !.english_level = defaultRange.english_level,
                                !.max_title = defaultRange.max_title]
  /\ pending' = TRUE
  /\ UNCHANGED <<salaryFile, loading, fetch, salaryData, contractTypeFilters,
                 filteredData, salaryMean, salaryMedian, numberOfPeople>>
  /\ UNCHANGED groupVars

(* ---------------------- the recomputation effect ---------------------- *)

\* baseSalary with the factor applied whatever the contract type
baseSalaryFactorForAll(d, f) ==
  JsScale(IF d.currency = "Pesos"
          THEN JsMul(d.income_in_currency, PesoUnits)
          ELSE JsMul(d.income_in_currency, f.exchangeRate * PesoUnits),
          Twentieths + f.factor_prestacional, Twentieths)

\* baseSalary that keeps an 'income-cop' the record already holds
baseSalaryCached(d, f) ==
  IF d.income_cop # Undefined THEN d.income_cop
  ELSE LET base == IF d.currency = "Pesos"
                   THEN JsMul(d.income_in_currency, PesoUnits)
                   ELSE JsMul(d.income_in_currency, f.exchangeRate * PesoUnits)
       IN  IF d.contract_type = Laboral
           THEN JsScale(base, Twentieths + f.factor_prestacional, Twentieths)
           ELSE base

\* lines 112-122 of the effect: the value written to d['income-cop']
baseSalary(d, f) ==
  LET base == IF d.currency = "Pesos"
              THEN JsMul(d.income_in_currency, PesoUnits)
              ELSE JsMul(d.income_in_currency, f.exchangeRate * PesoUnits)
  IN  IF d.contract_type = Laboral
      THEN JsScale(base, Twentieths + f.factor_prestacional, Twentieths)
      ELSE base

\* d['income-cop'] <= maxSalary, maxSalary being in millions
withinMaxSalary(v) ==
  /\ v # NaN /\ v # Undefined /\ v # Infinity
  /\ \/ v \div Million < maxSalary
     \/ v \div Million = maxSalary /\ v % Million = 0

\* contractTypeOn that takes a label the toggles do not hold as switched on
contractTypeOnUnlessFalse(ctf, t) == t \notin DOMAIN ctf \/ ctf[t]

\* contractTypeFilters[d['contract-type']] as a condition
contractTypeOn(ctf, t) == t \in DOMAIN ctf /\ ctf[t]

\* passes without the contract-type condition
passesNoContractType(d, f, ctf) ==
  /\ withinMaxSalary(d.income_cop)
  /\ JsLe(d.min_experience,
          IF f.experience.max >= 15 THEN Infinity ELSE f.experience.max)
  /\ JsGe(d.max_experience, f.experience.min)
  /\ JsGe(d.english_level, f.english_level.min)
  /\ JsLe(d.english_level, f.english_level.max)
  /\ JsGe(d.max_title, f.max_title.min)
  /\ JsLe(d.max_title, f.max_title.max)

\* passes with the slider's upper end taken as it is, 15 included
passesNoCeiling(d, f, ctf) ==
  /\ withinMaxSalary(d.income_cop)
  /\ JsLe(d.min_experience, f.experience.max)
  /\ JsGe(d.max_experience, f.experience.min)
  /\ JsGe(d.english_level, f.english_level.min)
  /\ JsLe(d.english_level, f.english_level.max)
  /\ JsGe(d.max_title, f.max_title.min)
  /\ JsLe(d.max_title, f.max_title.max)
  /\ contractTypeOn(ctf, d.contract_type)

\* the predicate of newSalaryData.filter
passes(d, f, ctf) ==
  /\ withinMaxSalary(d.income_cop)
  /\ JsLe(d.min_experience,
          IF f.experience.max >= 15 THEN Infinity ELSE f.experience.max)
  /\ JsGe(d.max_experience, f.experience.min)
  /\ JsGe(d.english_level, f.english_level.min)
  /\ JsLe(d.english_level, f.english_level.max)
  /\ JsGe(d.max_title, f.max_title.min)
  /\ JsLe(d.max_title, f.max_title.max)
  /\ contractTypeOn(ctf, d.contract_type)

\* salaryData.map: every row gets its 'income-cop' written in place
mapIncomeCop(rows, f) ==
  [i \in DOMAIN rows |-> [rows[i] EXCEPT !.income_cop = baseSalary(rows[i], f)]]

\* newSalaryData.filter: the indices, in order, of the rows that pass
filterRows(rows, f, ctf) ==
  SelectSeq([i \in DOMAIN rows |-> i], LAMBDA i : passes(rows[i], f, ctf))

\* the numbers d3.mean and d3.median keep: they skip NaN and undefined
numbers(values) == SelectSeq(values, LAMBDA v : v # NaN /\ v # Undefined)

\* d3.mean as the quotient sum / count; count 0 stands for undefined
d3mean(values) ==
  [sum |-> Sum(numbers(values)), count |-> Len(numbers(values))]

\* roundQuotient with Math.floor in place of Math.round
roundQuotientFloor(q) ==
  IF q.count = 0 THEN NaN
  ELSE (q.sum \div (Mille * q.count)) * Mille

\* Math.round(q * 1000) / 1000 of a quotient
roundQuotient(q) ==
  IF q.count = 0 THEN NaN
  ELSE ((q.sum + (Mille \div 2) * q.count) \div (Mille * q.count)) * Mille

\* the middle of an ascending sequence, as every median of the program takes it
middleOf(sorted) ==
  LET n == Len(sorted)
      middle == n \div 2
  IN  IF n % 2 # 0 THEN sorted[middle + 1]
      ELSE (sorted[middle] + sorted[middle + 1]) \div 2

\* d3median taking the upper of the two middle numbers of an even count
d3medianUpper(values) ==
  IF numbers(values) = <<>> THEN Undefined
  ELSE SortAscending(numbers(values))[Len(numbers(values)) \div 2 + 1]

\* d3.median: undefined for no number
d3median(values) ==
  IF numbers(values) = <<>> THEN Undefined
  ELSE middleOf(SortAscending(numbers(values)))

\* the 'income-cop' values of the rows that the indices name
incomes(rows, idx) == [k \in DOMAIN idx |-> rows[idx[k]].income_cop]

\* useEffect(..., [filters, contractTypeFilters, salaryData]).  filteredData
\* holds the objects of salaryData themselves: it is kept as their indices.
Effect ==
  /\ pending
  /\ pending' = FALSE
  /\ IF ~salaryData.isNull
     THEN LET rows == mapIncomeCop(salaryData.rows, filters)
              newSalaryData == filterRows(rows, filters, contractTypeFilters)
          IN  /\ salaryData' = Array(rows)
              /\ filteredData' = Array(newSalaryData)
              /\ salaryMean' = roundQuotient(d3mean(incomes(rows, newSalaryData)))
              /\ salaryMedian' = Round3(d3median(incomes(rows, newSalaryData)))
              /\ numberOfPeople' = Len(newSalaryData)
     ELSE UNCHANGED <<salaryData, filteredData, salaryMean, salaryMedian,
                      numberOfPeople>>
  /\ UNCHANGED <<salaryFile, loading, fetch, filters, contractTypeFilters>>
  /\ UNCHANGED sliderVars /\ UNCHANGED groupVars

(* ------------------------------ rendering ----------------------------- *)

\* showsFigure without the test of numberOfPeople
showsFigureAlways == ~loading

\* {numberOfPeople > 0 && ...}: the mean or median figure is on the page
showsFigure == ~loading /\ numberOfPeople > 0

\* {numberOfPeople > 0 && filteredData && ...}: the three Bar charts are on the page
showsBars == ~loading /\ numberOfPeople > 0 /\ ~filteredData.isNull

(* --------------------------- the Bar component ------------------------ *)

BarFields == {"main_programming_language", "company_type", "workmode"}
Metrics == {"mean", "median"}

\* reduceAdd of metric 'mean'; avg is kept as the quotient sum / count
\* meanAdd without the increment of count
meanAddNoCount(p, v) ==
  [count |-> p.count,
   sum |-> p.sum + v,
   avg |-> [sum |-> p.sum + v, count |-> p.count]]

meanAdd(p, v) ==
  [count |-> p.count + 1,
   sum |-> p.sum + v,
   avg |-> [sum |-> p.sum + v, count |-> p.count + 1]]

\* medianAdd without the sort after the push
medianAddUnsorted(p, v) ==
  LET values == Append(p.values, v)
      middle == Len(values) \div 2
  IN  [values |-> values,
       median |-> IF Len(values) % 2 # 0
                  THEN values[middle + 1]
                  ELSE (values[middle] + values[middle + 1]) \div 2]

\* reduceAdd of metric 'median'
medianAdd(p, v) ==
  LET values == SortAscending(Append(p.values, v))
      middle == Len(values) \div 2
  IN  [values |-> values,
       median |-> IF Len(values) % 2 # 0
                  THEN values[middle + 1]
                  ELSE (values[middle] + values[middle + 1]) \div 2]

\* reduceRemove of metric 'mean': it adds v[y] to the sum as reduceAdd does.
\* avg is the quotient sum / count; with count 0 it is Infinity or NaN
meanRemove(p, v) ==
  [count |-> p.count - 1,
   sum |-> p.sum + v,
   avg |-> [sum |-> p.sum + v, count |-> p.count - 1]]

\* reduceRemove of metric 'median': the filter drops every value equal to
\* v[y]; of no value left, values[-1] + values[0] is NaN
medianRemove(p, v) ==
  LET values == SortAscending(SelectSeq(p.values, LAMBDA value : value # v))
      middle == Len(values) \div 2
  IN  [values |-> values,
       median |-> IF Len(values) % 2 # 0 THEN values[middle + 1]
                  ELSE IF values = <<>> THEN NaN
                  ELSE (values[middle] + values[middle + 1]) \div 2]

\* the incomes, in units, of the records a group is given
GroupIncomes == {2 * Million, 4 * Million, 10 * Million}

MaxCalls == 4

\* the sequence s without its first element equal to v
RECURSIVE WithoutOne(_, _)
WithoutOne(s, v) ==
  IF s = <<>> THEN <<>>
  ELSE IF Head(s) = v THEN Tail(s)
  ELSE <<Head(s)>> \o WithoutOne(Tail(s), v)

\* crossfilter adds a record to the group: both reducers are followed
reduceAdd(v) ==
  /\ calls < MaxCalls
  /\ calls' = calls + 1
  /\ pMean' = meanAdd(pMean, v)
  /\ pMedian' = medianAdd(pMedian, v)
  /\ inGroup' = Append(inGroup, v)
  /\ UNCHANGED <<salaryFile, loading, fetch, salaryData, filters,
                 contractTypeFilters, filteredData, salaryMean, salaryMedian,
                 numberOfPeople, pending>>
  /\ UNCHANGED sliderVars

\* crossfilter removes a record that is in the group
reduceRemove(v) ==
  /\ calls < MaxCalls
  /\ \E k \in DOMAIN inGroup : inGroup[k] = v
  /\ calls' = calls + 1
  /\ pMean' = meanRemove(pMean, v)
  /\ pMedian' = medianRemove(pMedian, v)
  /\ inGroup' = WithoutOne(inGroup, v)
  /\ UNCHANGED <<salaryFile, loading, fetch, salaryData, filters,
                 contractTypeFilters, filteredData, salaryMean, salaryMedian,
                 numberOfPeople, pending>>
  /\ UNCHANGED sliderVars

\* the reducer of a group run over the values of its records, one add each
RECURSIVE meanReduce(_, _)
meanReduce(p, vals) ==
  IF vals = <<>> THEN p ELSE meanReduce(meanAdd(p, Head(vals)), Tail(vals))

RECURSIVE medianReduce(_, _)
medianReduce(p, vals) ==
  IF vals = <<>> THEN p ELSE medianReduce(medianAdd(p, Head(vals)), Tail(vals))

\* cx.dimension((d) => d[x]): the records of data whose key is key
members(rows, data, x, key) == SelectSeq(data, LAMBDA i : rows[i][x] = key)

\* dimension.group().reduce(...): one group for each key of the data
group(rows, data, x, metric, key) ==
  LET vals == incomes(rows, members(rows, data, x, key))
  IN  [key |-> key,
       value |-> IF metric = "mean" THEN meanReduce(meanInitial, vals)
                 ELSE medianReduce(medianInitial, vals)]

all(rows, data, x, metric) ==
  {group(rows, data, x, metric, rows[data[k]][x]) : k \in DOMAIN data}

\* group.top(Infinity) orders the groups by their value, an object: every
\* order of the groups is a possible outcome
tops(rows, data, x, metric) ==
  LET groups == all(rows, data, x, metric)
  IN  {t \in [1..Cardinality(groups) -> groups] :
         \A i, j \in DOMAIN t : i # j => t[i] # t[j]}

\* the .map of processedData
withValueToShow(d, x, metric) ==
  [key |-> IF x = "main_programming_language" /\ d.key = OtroLenguaje
           THEN "Otro" ELSE d.key,
   value |-> d.value,
   valueToShow |-> IF metric = "mean" THEN roundQuotient(d.value.avg)
                   ELSE Round3(d.value.median)]

\* shown with zero let through
shownWithZero(d) == d.valueToShow # NaN /\ d.valueToShow >= 0

\* the .filter of processedData
shown(d) == d.valueToShow # 0 /\ d.valueToShow # NaN /\ d.valueToShow > 0

\* insertByValueToShow with d3.descending
RECURSIVE insertDescending(_, _)
insertDescending(s, d) ==
  IF s = <<>> THEN <<d>>
  ELSE IF d.valueToShow > Head(s).valueToShow THEN <<d>> \o s
  ELSE <<Head(s)>> \o insertDescending(Tail(s), d)

\* the sequence s with d put after the last element that is not greater
RECURSIVE insertByValueToShow(_, _)
insertByValueToShow(s, d) ==
  IF s = <<>> THEN <<d>>
  ELSE IF d.valueToShow < Head(s).valueToShow THEN <<d>> \o s
  ELSE <<Head(s)>> \o insertByValueToShow(Tail(s), d)

\* .sort((a, b) => d3.ascending(a.valueToShow, b.valueToShow)), a stable sort
RECURSIVE sortByValueToShow(_)
sortByValueToShow(s) ==
  IF s = <<>> THEN <<>>
  ELSE insertByValueToShow(sortByValueToShow(SubSeq(s, 1, Len(s) - 1)), s[Len(s)])

processedData(top, x, metric) ==
  sortByValueToShow(
    SelectSeq([i \in DOMAIN top |-> withValueToShow(top[i], x, metric)], shown))

(* ------------------------ vocabulary of the claims -------------------- *)

\* the data is loaded and the effect of the last update has run
Settled == ~loading /\ ~pending

\* comparableIncome as the specification words it, in units
comparableIncome(d, rate, factor) ==
  LET converted == IF d.currency = "Pesos"
                   THEN JsMul(d.income_in_currency, PesoUnits)
                   ELSE JsMul(JsMul(d.income_in_currency, rate), PesoUnits)
  IN  IF d.contract_type = "Laboral"
      THEN JsScale(converted, Twentieths + factor, Twentieths)
      ELSE converted

\* the five predicates of the filter, each on its own, as sets of row indices
IncomeOk ==
  {i \in DOMAIN salaryData.rows :
     LET v == comparableIncome(salaryData.rows[i], filters.exchangeRate,
                               filters.factor_prestacional)
     IN  /\ IsFinite(v)
         /\ \/ v \div Million < maxSalary
            \/ v \div Million = maxSalary /\ v % Million = 0}
ExperienceOk ==
  {i \in DOMAIN salaryData.rows :
     LET d == salaryData.rows[i]
     IN  /\ IsFinite(d.min_experience) /\ IsFinite(d.max_experience)
         /\ (filters.experience.max >= 15 \/ d.min_experience <= filters.experience.max)
         /\ d.max_experience >= filters.experience.min}
EnglishOk ==
  {i \in DOMAIN salaryData.rows :
     LET d == salaryData.rows[i]
     IN  /\ IsFinite(d.english_level)
         /\ filters.english_level.min <= d.english_level
         /\ d.english_level <= filters.english_level.max}
EducationOk ==
  {i \in DOMAIN salaryData.rows :
     LET d == salaryData.rows[i]
     IN  /\ IsFinite(d.max_title)
         /\ filters.max_title.min <= d.max_title
         /\ d.max_title <= filters.max_title.max}
ContractOk ==
  {i \in DOMAIN salaryData.rows :
     LET t == salaryData.rows[i].contract_type
     IN  t \in DOMAIN contractTypeFilters /\ contractTypeFilters[t] = TRUE}

Matching == IncomeOk \cap ExperienceOk \cap EnglishOk \cap EducationOk \cap ContractOk

\* the elements of a sequence, as a set
Elements(s) == {s[k] : k \in DOMAIN s}

\* the 'income-cop' values of the filtered subset, in its order
FilteredIncomes == incomes(salaryData.rows, filteredData.rows)

\* C1: once the effect has run, the filtered subset is a subset of the loaded
\* records, holds each record at most once in the order of the file, and holds
\* a record exactly when the five predicates, each applied on its own, all hold.
C1_FilterIsIntersection ==
  Settled =>
    /\ Elements(filteredData.rows) \subseteq DOMAIN salaryData.rows
    /\ Elements(filteredData.rows) = Matching
    /\ \A j, k \in DOMAIN filteredData.rows :
         j < k => filteredData.rows[j] < filteredData.rows[k]

\* a settled state where the filter keeps some records and rejects others,
\* one of them for its contract type alone
C1_Witness ==
  /\ Settled
  /\ Matching # {}
  /\ (IncomeOk \cap ExperienceOk \cap EnglishOk \cap EducationOk) \ ContractOk # {}
  /\ DOMAIN salaryData.rows \ IncomeOk # {}

\* C2: once the effect has run, the 'income-cop' of every record is raw / 1e6
\* for Pesos and raw * exchangeRate / 1e6 otherwise, times (1 + factor) exactly
\* for Laboral; so no other factor would change the value of a record that is not
\* Laboral and no other exchange rate the value of a record in Pesos.
C2_ComparableIncome ==
  Settled =>
    \A i \in DOMAIN salaryData.rows :
      LET d == salaryData.rows[i]
          rate == filters.exchangeRate
          factor == filters.factor_prestacional
      IN  /\ d.income_cop = comparableIncome(d, rate, factor)
          /\ d.income_cop =
               JsScale(JsMul(JsMul(d.income_in_currency,
                                   IF d.currency = "Pesos" THEN 1 ELSE rate),
                             PesoUnits),
                       IF d.contract_type = "Laboral" THEN Twentieths + factor
                       ELSE Twentieths,
                       Twentieths)
          /\ d.contract_type # "Laboral" =>
               \A k \in Factors : baseSalary(d, [filters EXCEPT !.factor_prestacional = k])
                                    = d.income_cop
          /\ d.currency = "Pesos" =>
               \A r \in ExchangeRates : baseSalary(d, [filters EXCEPT !.exchangeRate = r])
                                          = d.income_cop

\* a settled state, both sliders moved, with a Laboral record in Pesos and a
\* record in Dollars that is not Laboral, both with a finite income
C2_Witness ==
  /\ Settled
  /\ filters.exchangeRate = 4000 /\ filters.factor_prestacional = 9
  /\ \E i, j \in DOMAIN salaryData.rows :
       /\ salaryData.rows[i].currency = "Pesos"
       /\ salaryData.rows[i].contract_type = "Laboral"
       /\ salaryData.rows[i].income_cop > 0
       /\ salaryData.rows[j].currency = "Dollars"
       /\ salaryData.rows[j].contract_type # "Laboral"
       /\ salaryData.rows[j].income_cop > 0

\* C3 as stated: the mean of a non-empty filtered subset is the sum of its
\* comparable incomes divided by their number.
C3_MeanIsSumOverCount ==
  (Settled /\ Matching # {}) =>
    salaryMean * numberOfPeople = Sum(FilteredIncomes)

\* C3 amended: the mean of a non-empty filtered subset is the sum of its
\* comparable incomes divided by their number, rounded to the nearest
\* thousandth of a million, a half rounding up.
C3_MeanIsRoundedSumOverCount ==
  (Settled /\ Matching # {}) =>
    /\ numberOfPeople = Cardinality(Matching)
    /\ salaryMean % Mille = 0
    /\ 2 * (salaryMean * numberOfPeople - Sum(FilteredIncomes)) <= Mille * numberOfPeople
    /\ 2 * (Sum(FilteredIncomes) - salaryMean * numberOfPeople) < Mille * numberOfPeople

\* a settled state with three filtered records whose mean is no whole number
\* of thousandths
C3_Witness ==
  /\ Settled
  /\ Cardinality(Matching) = 3
  /\ numberOfPeople = 3
  /\ salaryMean * 3 # Sum(FilteredIncomes)

\* the permutations of 1..n, and a sequence read in the order of one
Perms(n) == {p \in [1..n -> 1..n] : \A i, j \in 1..n : i # j => p[i] # p[j]}
Permuted(s, p) == [k \in DOMAIN s |-> s[p[k]]]

IsAscending(s) == \A j, k \in DOMAIN s : j < k => s[j] <= s[k]

\* twice the median of a non-empty sequence of amounts: twice the middle element
\* of its ascending arrangement, or the sum of the two middle elements
TwiceMedianOf(vals) ==
  LET n == Len(vals)
      sorted == CHOOSE t \in {Permuted(vals, p) : p \in Perms(n)} : IsAscending(t)
  IN  IF n % 2 = 1 THEN 2 * sorted[(n + 1) \div 2]
      ELSE sorted[n \div 2] + sorted[n \div 2 + 1]

\* the amount m is the amount twice / 2 rounded to the nearest thousandth, a
\* half rounding up
IsRoundedHalfOf(m, twice) ==
  /\ m % Mille = 0
  /\ 2 * m - twice <= Mille
  /\ twice - 2 * m < Mille

\* the groups' medians are those of the values of their records, in any order
\* the records are added
GroupMediansAreMiddles ==
  \A x \in BarFields :
    \A g \in all(salaryData.rows, filteredData.rows, x, "median") :
      LET vals == incomes(salaryData.rows,
                          members(salaryData.rows, filteredData.rows, x, g.key))
      IN  /\ 2 * g.value.median = TwiceMedianOf(vals)
          /\ \A p \in Perms(Len(vals)) :
               2 * medianReduce(medianInitial, Permuted(vals, p)).median
                 = TwiceMedianOf(vals)

\* C4 as stated: the overall median and the groups' medians do not depend on
\* the order of the records and are the middle element of the ascending values
\* (odd count) or the average of the two middle elements (even count).
C4_MedianIsMiddle ==
  (Settled /\ Matching # {}) =>
    /\ \A p \in Perms(Len(FilteredIncomes)) :
         2 * d3median(Permuted(FilteredIncomes, p)) = TwiceMedianOf(FilteredIncomes)
    /\ 2 * salaryMedian = TwiceMedianOf(FilteredIncomes)
    /\ GroupMediansAreMiddles

\* C4 amended: the medians do not depend on the order of the records; a
\* group's median is the middle element of the ascending values (odd count) or
\* the average of the two middle elements (even count), and the overall median
\* is that value rounded to the nearest thousandth of a million.
C4_MedianIsRoundedMiddle ==
  (Settled /\ Matching # {}) =>
    /\ \A p \in Perms(Len(FilteredIncomes)) :
         2 * d3median(Permuted(FilteredIncomes, p)) = TwiceMedianOf(FilteredIncomes)
    /\ IsRoundedHalfOf(salaryMedian, TwiceMedianOf(FilteredIncomes))
    /\ GroupMediansAreMiddles

\* a settled state where one group holds three records whose values are not in
\* ascending order in the file
C4_Witness ==
  /\ Settled
  /\ \E x \in BarFields :
       \E g \in all(salaryData.rows, filteredData.rows, x, "median") :
         LET vals == incomes(salaryData.rows,
                             members(salaryData.rows, filteredData.rows, x, g.key))
         IN  Len(vals) = 3 /\ ~IsAscending(vals) /\ vals[1] # vals[3]

\* what the specification calls null, a value that is no number and not NaN
NoData == Undefined - 1

\* the Bar charts of the page have no group and no entry
NoGroupedEntries ==
  \A x \in BarFields, metric \in Metrics :
    /\ all(salaryData.rows, filteredData.rows, x, metric) = {}
    /\ \A top \in tops(salaryData.rows, filteredData.rows, x, metric) :
         processedData(top, x, metric) = <<>>

\* C5 as stated: when no record matches, the count is 0, the mean and the
\* median are null, there is no grouped entry, and neither the figure nor a
\* bar chart is shown.
C5_EmptyIsNull ==
  (Settled /\ Matching = {}) =>
    /\ numberOfPeople = 0
    /\ salaryMean = NoData /\ salaryMedian = NoData
    /\ NoGroupedEntries
    /\ ~showsFigure /\ ~showsBars

\* C5 amended: when no record matches, the count is 0, the mean and the median
\* are NaN, there is no grouped entry, and neither the figure nor a bar chart
\* is shown.
C5_EmptyIsNaN ==
  (Settled /\ Matching = {}) =>
    /\ numberOfPeople = 0
    /\ filteredData = Array(<<>>)
    /\ salaryMean = NaN /\ salaryMedian = NaN
    /\ NoGroupedEntries
    /\ ~showsFigure /\ ~showsBars

\* a settled state where three records are loaded, some of them below the
\* income ceiling, and the filters leave none of them matching
C5_Witness ==
  /\ Settled
  /\ Len(salaryData.rows) = 3
  /\ IncomeOk # {} /\ Matching = {}
  /\ numberOfPeople = 0

\* the results on the page are those of the current filter state: the subset,
\* the count, the comparable incomes, the mean and the median
ResultsCurrent ==
  /\ Elements(filteredData.rows) = Matching
  /\ numberOfPeople = Cardinality(Matching)
  /\ Len(filteredData.rows) = numberOfPeople
  /\ \A i \in DOMAIN salaryData.rows :
       salaryData.rows[i].income_cop =
         comparableIncome(salaryData.rows[i], filters.exchangeRate,
                          filters.factor_prestacional)
  /\ IF Matching = {}
     THEN salaryMean = NaN /\ salaryMedian = NaN
     ELSE /\ salaryMean % Mille = 0
          /\ 2 * (salaryMean * numberOfPeople - Sum(FilteredIncomes))
               <= Mille * numberOfPeople
          /\ 2 * (Sum(FilteredIncomes) - salaryMean * numberOfPeople)
               < Mille * numberOfPeople
          /\ IsRoundedHalfOf(salaryMedian, TwiceMedianOf(FilteredIncomes))

\* an update of the filter state is waiting for its effect
Updated == ~loading /\ pending

\* C6: once the data is loaded, every step taken after a change of the filter
\* state is the effect's and ends in a settled state, and in every settled
\* state the subset, the count, the mean and the median are those of the
\* current exchange rate, factor, ranges and toggles.
C6_SettlesOnCurrentFilters ==
  /\ [](Settled => ResultsCurrent)
  /\ [][Updated => (Settled' /\ ResultsCurrent')]_vars

\* a settled state after changes of both sliders, a range and a toggle, with
\* records matching
C6_Witness ==
  /\ Settled
  /\ filters.exchangeRate = 4000 /\ filters.factor_prestacional = 9
  /\ filters.experience = Range(5, 15)
  /\ Contractor \in DOMAIN contractTypeFilters
  /\ numberOfPeople = 2

\* the positions of the filtered subset whose record has key as its x
Partition(x, key) ==
  {k \in DOMAIN filteredData.rows :
     salaryData.rows[filteredData.rows[k]][x] = key}

\* the values of field x that rows of a file can have
Categories(x) == {Roster[i][x] : i \in DOMAIN Roster}

\* C7: once the results are settled, the groups of a Bar partition the filtered
\* subset by the grouping field: every filtered record is counted by exactly one group, the one keyed by its
\* value of the field, every group counts exactly the records of its key, and
\* no group is empty.
C7_GroupsPartition ==
  Settled =>
    \A x \in BarFields, metric \in Metrics :
      LET groups == all(salaryData.rows, filteredData.rows, x, metric)
          size(g) == IF metric = "mean" THEN g.value.count ELSE Len(g.value.values)
      IN  /\ \A k \in DOMAIN filteredData.rows :
               /\ Cardinality({g \in groups : k \in Partition(x, g.key)}) = 1
               /\ \E g \in groups :
                    g.key = salaryData.rows[filteredData.rows[k]][x]
          /\ \A g \in groups :
               /\ Partition(x, g.key) # {}
               /\ size(g) = Cardinality(Partition(x, g.key))
               /\ \A h \in groups : h.key = g.key => h = g
          /\ UNION {Partition(x, g.key) : g \in groups} = DOMAIN filteredData.rows

\* a settled state with three filtered records in two groups of a field
C7_Witness ==
  /\ Settled
  /\ Len(filteredData.rows) = 3
  /\ \E x \in BarFields :
       LET groups == all(salaryData.rows, filteredData.rows, x, "mean")
       IN  Cardinality(groups) = 2 /\ \E g \in groups : g.value.count = 2

\* the key an entry shows for a category
Label(x, c) ==
  IF x = "main_programming_language" /\ c = OtroLenguaje THEN "Otro" ELSE c

\* the incomes of the records of a category's partition, in the order of the
\* filtered subset
PartitionIncomes(x, c) ==
  [k \in 1..Cardinality(Partition(x, c)) |->
     FilteredIncomes[CHOOSE j \in Partition(x, c) :
       Cardinality({i \in Partition(x, c) : i < j}) = k - 1]]

\* the mean or median of the incomes of a non-empty partition is positive
MetricPositive(x, metric, c) ==
  LET vals == PartitionIncomes(x, c)
  IN  IF metric = "mean" THEN Sum(vals) > 0 ELSE TwiceMedianOf(vals) > 0

\* the mean or median of the incomes of a non-empty partition, rounded to
\* thousandths as an entry carries it, is positive: the metric is at least
\* half a thousandth
RoundedMetricPositive(x, metric, c) ==
  LET vals == PartitionIncomes(x, c)
  IN  IF metric = "mean" THEN 2 * Sum(vals) >= Mille * Len(vals)
      ELSE TwiceMedianOf(vals) >= Mille

\* the outputs a Bar can produce for a field and a metric
Outputs(x, metric) ==
  {processedData(top, x, metric) :
     top \in tops(salaryData.rows, filteredData.rows, x, metric)}

\* C8 as stated: once the results are settled, the grouped output has an entry
\* for a category exactly when the category's partition of the filtered subset
\* is not empty and its metric is a positive finite number.
C8_EntriesArePositiveGroups ==
  Settled =>
    \A x \in BarFields, metric \in Metrics :
      \A out \in Outputs(x, metric) :
        /\ \A c \in Categories(x) :
             (\E e \in DOMAIN out : out[e].key = Label(x, c))
               <=> (Partition(x, c) # {} /\ MetricPositive(x, metric, c))
        /\ \A e \in DOMAIN out :
             /\ IsFinite(out[e].valueToShow) /\ out[e].valueToShow > 0
             /\ \E c \in Categories(x) : out[e].key = Label(x, c)

\* C8 amended: once the results are settled, the grouped output has an entry
\* for a category exactly when the category's partition of the filtered subset
\* is not empty and its metric, rounded to thousandths as the entry carries it,
\* is a positive finite number; a positive metric below half a thousandth of a
\* million rounds to zero and has no entry.
C8_EntriesAreRoundedPositiveGroups ==
  Settled =>
    \A x \in BarFields, metric \in Metrics :
      \A out \in Outputs(x, metric) :
        /\ \A c \in Categories(x) :
             (\E e \in DOMAIN out : out[e].key = Label(x, c))
               <=> (Partition(x, c) # {} /\ RoundedMetricPositive(x, metric, c))
        /\ \A e \in DOMAIN out :
             /\ IsFinite(out[e].valueToShow) /\ out[e].valueToShow > 0
             /\ \E c \in Categories(x) : out[e].key = Label(x, c)

\* a settled state where a Bar shows an entry for one category and none for
\* another one whose metric is positive and rounds to zero
C8_Witness ==
  /\ Settled
  /\ \E x \in BarFields, metric \in Metrics :
       \E out \in Outputs(x, metric) :
         /\ Len(out) >= 1
         /\ \E c \in Categories(x) :
              /\ Partition(x, c) # {}
              /\ MetricPositive(x, metric, c)
              /\ ~RoundedMetricPositive(x, metric, c)

\* the entries of an output are in ascending order of their metric value
Ascending(out) ==
  \A e \in DOMAIN out :
    e < Len(out) => out[e].valueToShow <= out[e + 1].valueToShow

\* C9 as stated: the grouped output has one entry for each distinct category
\* present in the filtered subset, in ascending order of metric value.
C9_OneEntryPerCategory ==
  Settled =>
    \A x \in BarFields, metric \in Metrics :
      \A out \in Outputs(x, metric) :
        /\ Len(out) = Cardinality({c \in Categories(x) : Partition(x, c) # {}})
        /\ \A c \in Categories(x) :
             Partition(x, c) # {} =>
               Cardinality({e \in DOMAIN out : out[e].key = Label(x, c)}) = 1
        /\ Ascending(out)

\* C9 amended: once the results are settled, the grouped output has one entry for each distinct category
\* present in the filtered subset whose rounded metric is positive, and no
\* other entry, in ascending order of metric value.
C9_OneEntryPerPositiveCategory ==
  Settled =>
    \A x \in BarFields, metric \in Metrics :
      \A out \in Outputs(x, metric) :
        /\ Len(out) = Cardinality({c \in Categories(x) :
                         Partition(x, c) # {} /\ RoundedMetricPositive(x, metric, c)})
        /\ \A c \in Categories(x) :
             (Partition(x, c) # {} /\ RoundedMetricPositive(x, metric, c)) =>
               Cardinality({e \in DOMAIN out : out[e].key = Label(x, c)}) = 1
        /\ Ascending(out)

\* a settled state where a Bar shows three entries of different metric values,
\* the file giving the record of the largest one first
C9_Witness ==
  /\ Settled
  /\ \E x \in BarFields, metric \in Metrics :
       \E out \in Outputs(x, metric) :
         /\ Len(out) = 3
         /\ out[1].valueToShow < out[2].valueToShow
         /\ out[2].valueToShow < out[3].valueToShow
         /\ salaryData.rows[filteredData.rows[1]].income_cop = out[3].valueToShow

\* an amount given in thousandths of a million
Thousandths(n) == n * Mille

\* the filters leave every loaded record in: the ranges span the sliders and
\* the contract type of every record is switched on
NonRestrictive ==
  /\ filters.experience = Range(0, 15)
  /\ filters.english_level = Range(0, 4)
  /\ filters.max_title \in {Range(0, 7), Range(1, 6)}
  /\ \A i \in DOMAIN salaryData.rows :
       contractTypeOn(contractTypeFilters, salaryData.rows[i].contract_type)

\* the file holds exactly the two records of the scenario
TwoRecordScenario ==
  /\ Len(salaryData.rows) = 2
  /\ salaryData.rows[1].currency = "Pesos"
  /\ salaryData.rows[1].income_in_currency = 50000000
  /\ salaryData.rows[1].contract_type = "Laboral"
  /\ salaryData.rows[2].currency = "Dollars"
  /\ salaryData.rows[2].income_in_currency = 2000
  /\ salaryData.rows[2].contract_type # "Laboral"
  /\ filters.exchangeRate = 4000
  /\ filters.factor_prestacional = 7

\* C10: with exactly the records (Pesos, 50,000,000, Laboral) and (Dollars,
\* 2,000, contractor), exchange rate 4000, factor 0.35 and filters that
\* restrict nothing else, both records are included, their comparable incomes
\* are 67.5 and 8.0, and the mean and the median are both 37.75.
C10_TwoRecordScenario ==
  (Settled /\ TwoRecordScenario /\ NonRestrictive) =>
    /\ filteredData.rows = <<1, 2>>
    /\ numberOfPeople = 2
    /\ salaryData.rows[1].income_cop = Thousandths(67500)
    /\ salaryData.rows[2].income_cop = Thousandths(8000)
    /\ salaryMean = Thousandths(37750)
    /\ salaryMedian = Thousandths(37750)

\* the scenario, settled, with the second record's contract type a label the
\* toggles did not hold at the start
C10_Witness ==
  /\ Settled /\ TwoRecordScenario /\ NonRestrictive
  /\ salaryData.rows[2].contract_type = Contractor

\* C11 as stated: once the records are loaded and a recomputation has run, no
\* step adds, deletes or modifies a record of the collection.
C11_RecordsReadOnly ==
  [][(~salaryData.isNull /\ ~filteredData.isNull) => salaryData' = salaryData]_vars

\* the results the App holds: the records with their comparable incomes, the
\* filtered subset, the count, the mean and the median
Results ==
  [salaryData |-> salaryData, filteredData |-> filteredData,
   numberOfPeople |-> numberOfPeople,
   salaryMean |-> salaryMean, salaryMedian |-> salaryMedian]

\* the results of one recomputation run on the records as they were loaded
\* from a file, under a filter state
Recomputed(file, f, ctf) ==
  LET rows == mapIncomeCop([k \in DOMAIN file |-> accessor(file[k])], f)
      sub == filterRows(rows, f, ctf)
  IN  [salaryData |-> Array(rows), filteredData |-> Array(sub),
       numberOfPeople |-> Len(sub),
       salaryMean |-> roundQuotient(d3mean(incomes(rows, sub))),
       salaryMedian |-> Round3(d3median(incomes(rows, sub)))]

\* the grouped entries a Bar can show for some results
GroupedEntries(res, x, metric) ==
  {processedData(top, x, metric) :
     top \in tops(res.salaryData.rows, res.filteredData.rows, x, metric)}

\* C12: in every settled state the results, grouped entries included, are
\* those of one recomputation run on the records as loaded under the current
\* filter state, whatever changes of the filters and recomputations came
\* before; and a recomputation that starts from results that are already those
\* of the current filter state leaves them as they are.
C12_ResultsDependOnInputsOnly ==
  /\ [](Settled =>
          LET res == Recomputed(salaryFile, filters, contractTypeFilters)
          IN  /\ Results = res
              /\ \A x \in BarFields, metric \in Metrics :
                   GroupedEntries(Results, x, metric) = GroupedEntries(res, x, metric))
  /\ [][(Updated /\ Results = Recomputed(salaryFile, filters, contractTypeFilters))
          => Results' = Results]_vars

\* a settled state back under the exchange rate and the factor of the start,
\* with a contract type switched on and off again, whose records have been
\* through recomputations under other filter states
C12_Witness ==
  /\ Settled /\ mounted
  /\ filters.exchangeRate = 4300 /\ filters.factor_prestacional = 7
  /\ filters.experience = Range(0, 15)
  /\ Contractor \in DOMAIN contractTypeFilters
  /\ ~contractTypeFilters[Contractor]
  /\ numberOfPeople = 3

\* C13 as stated: if loading the dataset fails, the App eventually leaves the
\* loading state to show the failure, and it does not fetch again.
C13_LoadFailureSurfaces ==
  /\ (fetch = "rejected") ~> ~loading
  /\ [][fetch = "rejected" => fetch' = "rejected"]_vars

\* the cells a numeric field of a row can hold: the digits of a value, nothing,
\* or text that spells no number
CellsOf(value) == {value, Blank, Letters}

\* the files of one row whose five numeric fields each hold one of these cells
MalformedFiles ==
  {<<csvRow("Pesos", "JavaScript", "Startup", "Remoto", Prestacion,
            minExp, maxExp, eng, title, income)>> :
     minExp \in CellsOf(3), maxExp \in CellsOf(5), eng \in CellsOf(2),
     title \in CellsOf(5), income \in CellsOf(50000000)}

\* the App given one of these files
MalformedInit ==
  /\ salaryFile \in MalformedFiles
  /\ AppInit
  /\ GroupInit

\* the load, the mount and the range sliders
MalformedNext ==
  \/ processDataThen
  \/ mount
  \/ \E lo \in ExperienceStops, hi \in ExperienceStops :
       lo <= hi /\ draw("experience", lo, hi)
  \/ \E r \in EnglishRanges : draw("english_level", r.min, r.max)
  \/ \E r \in TitleRanges : draw("max_title", r.min, r.max)
  \/ Effect

MalformedSpec == MalformedInit /\ [][MalformedNext]_vars

\* the numeric fields of a row
NumericFields ==
  {"min_experience", "max_experience", "english_level", "max_title",
   "income_in_currency"}

\* a row of the file has a numeric field whose cell is not a number
IsMalformed(d) == \E field \in NumericFields : d[field] \in {Blank, Letters}

\* C14 as stated: a row with a cell that is not a number in a numeric field is
\* never in the filtered subset, so the count, the mean, the median and the
\* groups never take it in.
C14_MalformedNeverIncluded ==
  Settled =>
    \A i \in DOMAIN salaryFile :
      IsMalformed(salaryFile[i]) =>
        /\ i \notin Elements(filteredData.rows)
        /\ numberOfPeople = Cardinality(Matching \ {i})

\* one group of a Bar, given records and taken records by crossfilter
ReducerInit ==
  /\ salaryFile = <<>>
  /\ AppInit
  /\ GroupInit

ReducerNext ==
  \/ \E v \in GroupIncomes : reduceAdd(v)
  \/ \E v \in GroupIncomes : reduceRemove(v)

ReducerSpec == ReducerInit /\ [][ReducerNext]_vars

\* C15 as stated: after any adds and removes, each remove of a record that is
\* in the group, the count of the mean reducer is the number of records in the
\* group and its avg is their sum divided by their number.
C15_MeanTracksGroup ==
  /\ pMean.count = Len(inGroup)
  /\ inGroup # <<>> =>
       pMean.avg.sum * Len(inGroup) = Sum(inGroup) * pMean.avg.count

\* C16 as stated: after any adds and removes, each remove of a record that is
\* in the group, the median of the median reducer is the median of the values
\* in the group, equal values included, and the initial value when the group
\* is empty.
C16_MedianTracksGroup ==
  IF inGroup = <<>> THEN pMedian.median = medianInitial.median
  ELSE 2 * pMedian.median = TwiceMedianOf(inGroup)

\* the experience predicate as the specification words it: the record's range
\* of years overlaps the slider's, whose upper end is no bound at the ceiling
ExperienceOverlaps(d) ==
  /\ \/ filters.experience.max >= 15
     \/ d.min_experience <= filters.experience.max
  /\ d.max_experience >= filters.experience.min

\* C17: once the results are settled, a record that the other four predicates
\* let through is in the filtered subset exactly when its least years of
\* experience are at most the slider's upper end and its most years at least
\* the lower end, the upper end being no bound when it is at the ceiling of 15.
C17_ExperienceCeilingUnbounded ==
  Settled =>
    \A i \in IncomeOk \cap EnglishOk \cap EducationOk \cap ContractOk :
      (i \in Elements(filteredData.rows))
        <=> ExperienceOverlaps(salaryData.rows[i])

\* a settled state, the slider moved to 5-15, with a record in the filtered
\* subset whose least years of experience are above the ceiling
C17_Witness ==
  /\ Settled /\ mounted
  /\ filters.experience = Range(5, 15)
  /\ \E k \in DOMAIN filteredData.rows :
       salaryData.rows[filteredData.rows[k]].min_experience > 15
  /\ \E i \in DOMAIN salaryData.rows : i \notin ExperienceOk

\* the records of the filtered subset have contract types that the toggles
\* hold true
FilteredAreSwitchedOn ==
  \A k \in DOMAIN filteredData.rows :
    LET t == salaryData.rows[filteredData.rows[k]].contract_type
    IN  t \in DOMAIN contractTypeFilters /\ contractTypeFilters[t] = TRUE

\* C18 as stated: in every state the App reaches, a record whose contract type
\* the toggles do not hold true is not in the filtered subset.
C18_OffTypesExcluded == FilteredAreSwitchedOn

\* C18 amended: in every state the App reaches once the recomputation of the
\* last change has run, a record whose contract type the toggles do not hold
\* true, absent labels included, is not in the filtered subset, whatever the
\* other filters are; and the recomputation that follows a change always ends
\* in such a state.
C18_OffTypesExcludedOnceSettled ==
  /\ [](Settled => FilteredAreSwitchedOn)
  /\ [][Updated => FilteredAreSwitchedOn']_vars

\* a settled state where the other four predicates let through a record of a
\* label the toggles never held and a record of a label switched off
C18_Witness ==
  /\ Settled /\ mounted
  /\ \E i, j \in (IncomeOk \cap ExperienceOk \cap EnglishOk \cap EducationOk) :
       /\ salaryData.rows[i].contract_type \notin DOMAIN contractTypeFilters
       /\ salaryData.rows[j].contract_type \in DOMAIN contractTypeFilters
       /\ ~contractTypeFilters[salaryData.rows[j].contract_type]
  /\ numberOfPeople > 0

\* the entries of filters other than name, and the toggles other than t, are
\* after the step what they were before
OtherFiltersKept(name) ==
  \A other \in DOMAIN filters \ {name} : filters'[other] = filters[other]
OtherTogglesKept(t) ==
  /\ DOMAIN contractTypeFilters' = DOMAIN contractTypeFilters \cup {t}
  /\ \A other \in DOMAIN contractTypeFilters \ {t} :
       contractTypeFilters'[other] = contractTypeFilters[other]

\* the ranges the slider of a variable sends to updateRangeChart
SentRanges(name) ==
  {defaultRange[name]} \cup
    (IF name = "experience"
     THEN {r \in {Range(lo, hi) : lo \in ExperienceStops, hi \in ExperienceStops} :
             r.min <= r.max}
     ELSE IF name = "english_level" THEN EnglishRanges ELSE TitleRanges)

\* C19: a step of updateChart or updateRangeChart gives filters[name] the
\* value passed and leaves every other entry of filters and every toggle as
\* it was; a step of toggleContractType negates the toggle of its label, a
\* label the toggles do not hold counting as off, and leaves every other
\* toggle and filters as they were; and no step but the mount of the three
\* sliders changes more than one entry.
C19_HandlersChangeOnlyTheirEntry ==
  [][/\ \A name \in {"exchangeRate", "factor_prestacional"} :
          \A value \in (IF name = "exchangeRate" THEN ExchangeRates ELSE Factors) :
            updateChart(name, value) =>
              /\ filters'[name] = value
              /\ OtherFiltersKept(name)
              /\ contractTypeFilters' = contractTypeFilters
     /\ \A name \in RangeSliders :
          \A r \in SentRanges(name) :
            updateRangeChart(name, r.min, r.max) =>
              /\ filters'[name] = [min |-> r.min, max |-> r.max]
              /\ OtherFiltersKept(name)
              /\ contractTypeFilters' = contractTypeFilters
     /\ \A t \in ToggleLabels :
          toggleContractType(t) =>
            /\ contractTypeFilters'[t] =
                 ~(t \in DOMAIN contractTypeFilters /\ contractTypeFilters[t])
            /\ OtherTogglesKept(t)
            /\ filters' = filters
     /\ (filters' # filters /\ mounted) =>
          /\ Cardinality({name \in DOMAIN filters : filters'[name] # filters[name]}) = 1
          /\ contractTypeFilters' = contractTypeFilters
     /\ contractTypeFilters' # contractTypeFilters =>
          /\ \E t \in ToggleLabels : OtherTogglesKept(t)
          /\ filters' = filters
    ]_vars

\* a state reached by steps of the three handlers, with entries changed by
\* each of them next to entries still at their first values
C19_Witness ==
  /\ Settled /\ mounted
  /\ filters.exchangeRate = 4000 /\ filters.factor_prestacional = 7
  /\ filters.experience = Range(0, 5) /\ filters.english_level = Range(0, 4)
  /\ filters.max_title = Range(6, 6)
  /\ contractTypeFilters[Laboral] = FALSE
  /\ contractTypeFilters[Prestacion] = TRUE
  /\ Contractor \in DOMAIN contractTypeFilters

\* C20: once the RangeSliders have mounted, the range the App's filters hold
\* for the variable of each slider is the selected range the slider shows,
\* after any changes of the sliders; and the step that mounts them sets the
\* three ranges to the sliders' [defaultMin, defaultMax], whatever the filters
\* held at the start.
C20_FiltersFollowSliders ==
  /\ [](mounted => \A v \in RangeSliders : filters[v] = selectedRange[v])
  /\ [][(~mounted /\ mounted') =>
          \A v \in RangeSliders :
            filters'[v] = defaultRange[v] /\ selectedRange'[v] = defaultRange[v]]_vars

\* a state after the mount and a change of the experience slider, where the
\* range of max-title is the slider's 1-6 and no longer the 0-7 of the start
C20_Witness ==
  /\ mounted
  /\ selectedRange.experience = Range(5, 15)
  /\ selectedRange.max_title = Range(1, 6)
  /\ filters.max_title # Range(0, 7)

Next ==
  \/ processDataThen
  \/ processDataCatch
  \/ \E v \in ExchangeRates : updateChart("exchangeRate", v)
  \/ \E v \in Factors : updateChart("factor_prestacional", v)
  \/ mount
  \/ \E lo \in ExperienceStops, hi \in ExperienceStops :
       lo <= hi /\ draw("experience", lo, hi)
  \/ \E r \in EnglishRanges : draw("english_level", r.min, r.max)
  \/ \E r \in TitleRanges : draw("max_title", r.min, r.max)
  \/ \E t \in ToggleLabels : toggleContractType(t)
  \/ Effect

Spec == Init /\ [][Next]_vars

\* a step of the effect, told by the flag it clears
EffectRuns == pending /\ pending' = FALSE

\* The promise of d3.csv settles, React runs the mount effects of the
\* components it has rendered, and it runs the effect of every update.
FairSpec ==
  /\ Spec
  /\ WF_vars(processDataThen \/ processDataCatch)
  /\ WF_vars(mount)
  /\ WF_pending(EffectRuns)

====
